---- MODULE Spec2Model ----
(***************************************************************************)
(* A model of the ENS160 driver (src/ens160sciosense.py): the vendor CRC8, *)
(* the config bit-field codecs, the verified register read and the         *)
(* operations built on it, against a transport whose replies are arbitrary *)
(* bytes, and against a chip with a running checksum shared by two driver  *)
(* instances.                                                              *)
(***************************************************************************)
EXTENDS Integers, Sequences, FiniteSets, TLC

VARIABLES
    check_crc,   \* Ens160._check_crc, set by the constructor and never changed
    phase,       \* "idle": the caller is about to call; "done": a call has ended
    call,        \* the operation called last: [name, args]
    bus,         \* the bus transactions that call issued, in order
    result,      \* how that call ended: [st |-> "ok" | an exception, val |-> <<...>>]
    misr,        \* shared chip: the chip's running checksum register (0x38)
    drv,         \* shared chip: each driver instance's position in _read_register
    lock,        \* shared chip: the holder of the external mutex, or Nobody
    serialized   \* shared chip: whether the callers serialize reads with the mutex

driverVars == <<check_crc, phase, call, bus, result>>
sharedVars == <<misr, drv, lock, serialized>>
vars == <<check_crc, phase, call, bus, result, misr, drv, lock, serialized>>

----------------------------------------------------------------------------
(* Bounds of the model. *)

\* how many distinct data bytes the transport may reply with
NumSamples == 3
\* how many distinct corrupted/unrelated checksum bytes the transport may reply with
NumCrcSamples == 2
\* the longest byte sequence _crc8 is applied to as a pure function
MaxCrcLen == 2
\* how many reads each driver instance issues against the shared chip
MaxReads == 2

----------------------------------------------------------------------------
(* Python's integer operators on naturals. *)

RECURSIVE BitAnd(_, _)
BitAnd(a, b) ==
    IF a = 0 \/ b = 0 THEN 0
    ELSE (IF a % 2 = 1 /\ b % 2 = 1 THEN 1 ELSE 0) + 2 * BitAnd(a \div 2, b \div 2)

RECURSIVE BitXor(_, _)
BitXor(a, b) ==
    IF a = 0 THEN b
    ELSE IF b = 0 THEN a
    ELSE ((a + b) % 2) + 2 * BitXor(a \div 2, b \div 2)

Shl(a, k) == a * (2 ^ k)

Shr(a, k) == a \div (2 ^ k)

\* bool(x) of an int
Truthy(x) == x # 0

\* int(b) of a bool
BoolInt(b) == IF b THEN 1 ELSE 0

Byte == 0 .. 255

----------------------------------------------------------------------------
(* Pure functions of the driver. *)

_CRC_POLY == 29

\* n_bits = 6, 5, 3, 1, 0 in _to_raw_config and _to_config
n_bits == <<6, 5, 3, 1, 0>>

RECURSIVE SumSeq(_)
SumSeq(s) == IF s = <<>> THEN 0 ELSE Head(s) + SumSeq(Tail(s))

\* a mutation of _to_raw_config: int_gpr packed into bit 2 instead of bit 3
_to_raw_config_bit2(cfg) ==
    SumSeq([i \in 1 .. Len(n_bits) |->
                Shl(BoolInt(cfg[i]), IF i = 3 THEN 2 ELSE n_bits[i])])

\* cfg is the tuple (int_pol, int_cfg, int_gpr, int_dat, int_en)
_to_raw_config(cfg) ==
    SumSeq([i \in 1 .. Len(n_bits) |-> Shl(BoolInt(cfg[i]), n_bits[i])])

\* the i-th value drawn from bit_val_gen: the i-th mask of mask_gen ANDed with raw_cfg
_to_config(raw_cfg) ==
    [i \in 1 .. Len(n_bits) |-> Truthy(BitAnd(Shl(1, n_bits[i]), raw_cfg))]

\* validity_flag sits between the bits of n_bits = 7, 6, 1, 0
_to_status(st) ==
    [stat_as |-> Truthy(BitAnd(Shl(1, 7), st)),
     stat_error |-> Truthy(BitAnd(Shl(1, 6), st)),
     validity_flag |-> Shr(BitAnd(12, st), 2),
     new_data |-> Truthy(BitAnd(Shl(1, 1), st)),
     new_gpr |-> Truthy(BitAnd(Shl(1, 0), st))]

\* a mutation of _crc8: the branch tests the top bit of tmp instead of crc's
RECURSIVE _crc8_step_tmpbit(_, _, _)
_crc8_step_tmpbit(crc, sequence, polynomial) ==
    IF sequence = <<>> THEN crc
    ELSE LET item == Head(sequence)
             tmp == BitAnd(255, BitXor(Shl(crc, 1), item))
         IN  _crc8_step_tmpbit(IF 0 = BitAnd(tmp, 128) THEN tmp ELSE BitXor(tmp, polynomial),
                               Tail(sequence), polynomial)

_crc8_tmpbit(sequence, polynomial, init_value) ==
    _crc8_step_tmpbit(BitAnd(init_value, 255), sequence, polynomial)

\* the loop of _crc8: one iteration per item
RECURSIVE _crc8_loop(_, _, _)
_crc8_loop(crc, sequence, polynomial) ==
    IF sequence = <<>> THEN crc
    ELSE LET item == Head(sequence)
             tmp == BitAnd(255, BitXor(Shl(crc, 1), item))
         IN  _crc8_loop(IF 0 = BitAnd(crc, 128) THEN tmp ELSE BitXor(tmp, polynomial),
                        Tail(sequence), polynomial)

_crc8(sequence, polynomial, init_value) ==
    _crc8_loop(BitAnd(init_value, 255), sequence, polynomial)

----------------------------------------------------------------------------
(* A call as the list of ways it can run, one per choice of the replies   *)
(* of the transport.  A run is the bus transactions issued so far (log),   *)
(* how the call ended (st: "ok" or the exception raised) and the value     *)
(* returned (val, always a tuple: <<>> is None).                           *)

Run(log, st, val) == [log |-> log, st |-> st, val |-> val]

Return(log, val) == <<Run(log, "ok", val)>>

Raise(log, exc) == <<Run(log, exc, <<>>)>>

RECURSIVE Flatten(_)
Flatten(ss) == IF ss = <<>> THEN <<>> ELSE Head(ss) \o Flatten(Tail(ss))

\* statement sequencing: F continues every run of R that raised nothing
Bind(R, F(_, _)) ==
    Flatten([i \in DOMAIN R |->
                IF R[i].st = "ok" THEN F(R[i].log, R[i].val) ELSE <<R[i]>>])

----------------------------------------------------------------------------
(* The transport (DeviceEx of sensor_pack_2): every read may reply with    *)
(* any bytes.  The replies are drawn from small sets: NumSamples replies   *)
(* to a read of a data register, NumCrcSamples replies to a read of the    *)
(* checksum register and, when that read follows a checksum read and a     *)
(* data read, the checksum of that data too, so that a verification can    *)
(* succeed as well as fail.                                                *)

SampleByte(i) == (2 + 251 * i) % 256

\* the j-th reply to a read of n bytes
SampleReply(j, n) == [k \in 1 .. n |-> SampleByte(j + k - 1)]

CrcSample(i) == (165 * i) % 256

CrcSamples == {CrcSample(i) : i \in 0 .. NumCrcSamples - 1}

MatchingChecksum(log) ==
    LET k == Len(log)
    IN  IF k >= 2 /\ log[k].op = "r" /\ log[k].reg # 56
              /\ log[k - 1].op = "r" /\ log[k - 1].reg = 56
        THEN {_crc8(log[k].val, _CRC_POLY, log[k - 1].val[1])}
        ELSE {}

\* the replies the transport may give to a read, as a list without repetition
Replies(log, reg, n) ==
    IF reg = 56
    THEN [i \in 1 .. NumCrcSamples |-> <<CrcSample(i - 1)>>]
         \o (IF MatchingChecksum(log) \subseteq CrcSamples THEN <<>>
             ELSE <<<<_crc8(log[Len(log)].val, _CRC_POLY, log[Len(log) - 1].val[1])>>>>)
    ELSE [j \in 1 .. NumSamples |-> SampleReply(j - 1, n)]

read_reg(log, reg_addr, bytes_count) ==
    LET replies == Replies(log, reg_addr, bytes_count)
    IN  [i \in DOMAIN replies |->
            Run(Append(log, [op |-> "r", reg |-> reg_addr, n |-> bytes_count,
                             val |-> replies[i]]),
                "ok", replies[i])]

write_reg(log, reg_addr, value, bytes_count) ==
    Return(Append(log, [op |-> "w", reg |-> reg_addr, n |-> bytes_count, val |-> <<value>>]),
           <<>>)

\* unpack("H", b)[0] with big_byte_order=False
unpackH(b) == b[1] + 256 * b[2]

\* check_value of sensor_pack_2.base_sensor
check_value(log, value, valid_range) ==
    IF value \notin valid_range THEN Raise(log, "ValueError") ELSE Return(log, <<value>>)

----------------------------------------------------------------------------
(* The driver's operations. *)

_get_last_checksum(log) ==
    Bind(read_reg(log, 56, 1), LAMBDA l, b : Return(l, <<b[1]>>))

\* a mutation of _read_register: the checksum is seeded with 0, not with before
_read_register_seed0(log, reg_addr, bytes_count) ==
    Bind(IF check_crc THEN _get_last_checksum(log) ELSE Return(log, <<0>>),
         LAMBDA l1, before :
    Bind(read_reg(l1, reg_addr, bytes_count),
         LAMBDA l2, b :
            IF check_crc /\ 0 <= reg_addr /\ reg_addr < 56
            THEN LET crc == _crc8(b, _CRC_POLY, 0)
                 IN  Bind(_get_last_checksum(l2),
                          LAMBDA l3, after :
                             IF crc # after[1] THEN Raise(l3, "IOError")
                             ELSE Return(l3, b))
            ELSE Return(l2, b)))

\* a mutation of _read_register: before is read whether or not check_crc is set
_read_register_always_before(log, reg_addr, bytes_count) ==
    Bind(_get_last_checksum(log),
         LAMBDA l1, before :
    Bind(read_reg(l1, reg_addr, bytes_count),
         LAMBDA l2, b :
            IF check_crc /\ 0 <= reg_addr /\ reg_addr < 56
            THEN LET crc == _crc8(b, _CRC_POLY, before[1])
                 IN  Bind(_get_last_checksum(l2),
                          LAMBDA l3, after :
                             IF crc # after[1] THEN Raise(l3, "IOError")
                             ELSE Return(l3, b))
            ELSE Return(l2, b)))

\* a mutation of _read_register: on a mismatch the target register is read once more
_read_register_retry(log, reg_addr, bytes_count) ==
    Bind(IF check_crc THEN _get_last_checksum(log) ELSE Return(log, <<0>>),
         LAMBDA l1, before :
    Bind(read_reg(l1, reg_addr, bytes_count),
         LAMBDA l2, b :
            IF check_crc /\ 0 <= reg_addr /\ reg_addr < 56
            THEN LET crc == _crc8(b, _CRC_POLY, before[1])
                 IN  Bind(_get_last_checksum(l2),
                          LAMBDA l3, after :
                             IF crc # after[1]
                             THEN Bind(read_reg(l3, reg_addr, bytes_count),
                                       LAMBDA l4, b2 : Raise(l4, "IOError"))
                             ELSE Return(l3, b))
            ELSE Return(l2, b)))

\* a mutation of _read_register: the range test is reg_addr <= 0x38
_read_register_le(log, reg_addr, bytes_count) ==
    Bind(IF check_crc THEN _get_last_checksum(log) ELSE Return(log, <<0>>),
         LAMBDA l1, before :
    Bind(read_reg(l1, reg_addr, bytes_count),
         LAMBDA l2, b :
            IF check_crc /\ 0 <= reg_addr /\ reg_addr <= 56
            THEN LET crc == _crc8(b, _CRC_POLY, before[1])
                 IN  Bind(_get_last_checksum(l2),
                          LAMBDA l3, after :
                             IF crc # after[1] THEN Raise(l3, "IOError")
                             ELSE Return(l3, b))
            ELSE Return(l2, b)))

_read_register(log, reg_addr, bytes_count) ==
    Bind(IF check_crc THEN _get_last_checksum(log) ELSE Return(log, <<0>>),
         LAMBDA l1, before :
    Bind(read_reg(l1, reg_addr, bytes_count),
         LAMBDA l2, b :
            IF check_crc /\ 0 <= reg_addr /\ reg_addr < 56
            THEN LET crc == _crc8(b, _CRC_POLY, before[1])
                 IN  Bind(_get_last_checksum(l2),
                          LAMBDA l3, after :
                             IF crc # after[1] THEN Raise(l3, "IOError")
                             ELSE Return(l3, b))
            ELSE Return(l2, b)))

get_id(log) ==
    Bind(_read_register(log, 0, 2), LAMBDA l, reg_val : Return(l, <<unpackH(reg_val)>>))

\* a mutation of _set_mode: the register is written before the mode is validated
_set_mode_write_first(log, new_mode) ==
    Bind(write_reg(log, 16, new_mode, 1),
         LAMBDA l, w : Bind(check_value(l, new_mode, {0, 1, 2, 240}),
                            LAMBDA l2, nm : Return(l2, <<>>)))

_set_mode(log, new_mode) ==
    Bind(check_value(log, new_mode, {0, 1, 2, 240}),
         LAMBDA l, nm : write_reg(l, 16, nm[1], 1))

soft_reset(log) == _set_mode(log, 240)

_get_mode(log) ==
    Bind(_read_register(log, 16, 1), LAMBDA l, reg_val : Return(l, <<reg_val[1]>>))

get_config(log, raw) ==
    Bind(_read_register(log, 17, 1),
         LAMBDA l, b : IF raw THEN Return(l, <<b[1]>>) ELSE Return(l, <<_to_config(b[1])>>))

\* new_config is an ens160_config tuple
set_config(log, new_config) == write_reg(log, 17, _to_raw_config(new_config), 1)

_exec_cmd(log, cmd) ==
    Bind(check_value(log, cmd, {0, 14, 204}),
         LAMBDA l1, c :
    Bind(write_reg(l1, 18, cmd, 1),
         LAMBDA l2, w : _read_register(l2, 72, 8)))

\* int(x) of the rational num/den: truncation toward zero
IntTrunc(num, den) == IF num >= 0 THEN num \div den ELSE -((-num) \div den)

\* value_in_celsius is a whole number of degrees; 64*(273.15+c) = 64*(27315+100c)/100
set_ambient_temp(log, value_in_celsius) ==
    LET t == IntTrunc(64 * (27315 + 100 * value_in_celsius), 100)
    IN  write_reg(log, 19, t, 2)

set_humidity(log, rel_hum) ==
    Bind(check_value(log, rel_hum, 0 .. 100),
         LAMBDA l, v : write_reg(l, 21, Shl(rel_hum, 9), 2))

_get_status(log, raw) ==
    Bind(_read_register(log, 32, 1),
         LAMBDA l, b : IF raw THEN Return(l, <<b[1]>>) ELSE Return(l, <<_to_status(b[1])>>))

_get_aqi(log) ==
    Bind(_read_register(log, 33, 1), LAMBDA l, reg_val : Return(l, <<BitAnd(7, reg_val[1])>>))

_get_tvoc(log) ==
    Bind(_read_register(log, 34, 2), LAMBDA l, reg_val : Return(l, <<unpackH(reg_val)>>))

_get_eco2(log) ==
    Bind(_read_register(log, 36, 2), LAMBDA l, reg_val : Return(l, <<unpackH(reg_val)>>))

get_firmware_version(log) ==
    Bind(_exec_cmd(log, 14), LAMBDA l, b : Return(l, <<b[5], b[6], b[7]>>))

start_measurement(log, start) == _set_mode(log, IF start THEN 2 ELSE 1)

\* value_index is <<>> for None and <<i>> for the int i
get_measurement_value(log, value_index) ==
    IF value_index = <<0>> THEN _get_eco2(log)
    ELSE IF value_index = <<1>> THEN _get_tvoc(log)
    ELSE IF value_index = <<2>> THEN _get_aqi(log)
    ELSE IF value_index = <<>>
    THEN Bind(_get_eco2(log), LAMBDA l1, eco2 :
         Bind(_get_tvoc(l1), LAMBDA l2, tvoc :
         Bind(_get_aqi(l2), LAMBDA l3, aqi :
              Return(l3, <<eco2[1], tvoc[1], aqi[1]>>))))
    ELSE Return(log, <<>>)

get_data_status(log, raw) == _get_status(log, raw)

is_continuously_mode(log) ==
    Bind(_get_mode(log), LAMBDA l, m : Return(l, <<2 = m[1]>>))

\* a mutation of __next__: the measurement is read whatever the status says
__next__ignoring_new_data(log) ==
    Bind(is_continuously_mode(log), LAMBDA l1, cont :
        IF ~cont[1] THEN Return(l1, <<>>)
        ELSE Bind(get_data_status(l1, FALSE), LAMBDA l2, status :
                get_measurement_value(l2, <<>>)))

__next__(log) ==
    Bind(is_continuously_mode(log), LAMBDA l1, cont :
        IF ~cont[1] THEN Return(l1, <<>>)
        ELSE Bind(get_data_status(l1, FALSE), LAMBDA l2, status :
                IF status[1].new_data THEN get_measurement_value(l2, <<>>)
                ELSE Return(l2, <<>>)))

----------------------------------------------------------------------------
(* The driver against the transport: the caller (main.py) constructs the   *)
(* driver, calls one operation at a time and takes its result.             *)

RegInputs == {0, 16, 32, 36, 55, 56, 72}
LenInputs == {1, 2}
ModeInputs == {0, 1, 2, 3, 240, 241}
CmdInputs == {0, 1, 14, 204, 255}
HumInputs == -1 .. 101
TempInputs == -40 .. 85
IndexInputs == {<<>>, <<0>>, <<1>>, <<2>>, <<3>>}
ConfigInputs == [1 .. 5 -> BOOLEAN]

NoCall == [name |-> "__init__", args |-> <<>>]
NoResult == [st |-> "ok", val |-> <<>>]
Nobody == "nobody"
Drivers == {"a", "b"}
IdleDriver ==
    [pc |-> "idle", reg |-> 0, n |-> 0, before |-> 0, b |-> <<>>, st |-> "none",
     reads |-> 0, intruded |-> FALSE]

\* __init__: check_crc is the constructor's argument
Init ==
    /\ check_crc \in BOOLEAN
    /\ phase = "idle"
    /\ call = NoCall
    /\ bus = <<>>
    /\ result = NoResult
    /\ misr = 0
    /\ drv = [d \in Drivers |-> IdleDriver]
    /\ lock = Nobody
    /\ serialized = FALSE

\* one call of an operation, from its first statement to its return or raise
Do(name, args, runs) ==
    /\ \E i \in DOMAIN runs :
        LET r == runs[i]
        IN
          /\ call' = [name |-> name, args |-> args]
          /\ bus' = r.log
          /\ result' = [st |-> r.st, val |-> r.val]
    /\ phase' = "done"
    /\ UNCHANGED <<check_crc, misr, drv, lock, serialized>>

\* the caller takes the result and goes on to its next call
Resume ==
    /\ phase = "done"
    /\ phase' = "idle"
    /\ call' = NoCall
    /\ bus' = <<>>
    /\ result' = NoResult
    /\ UNCHANGED <<check_crc, misr, drv, lock, serialized>>

Do_read_register ==
    /\ phase = "idle"
    /\ \E reg \in RegInputs, n \in LenInputs :
          Do("_read_register", <<reg, n>>, _read_register(<<>>, reg, n))

Do_get_id ==
    /\ phase = "idle"
    /\ Do("get_id", <<>>, get_id(<<>>))

Do_soft_reset ==
    /\ phase = "idle"
    /\ Do("soft_reset", <<>>, soft_reset(<<>>))

Do_set_mode ==
    /\ phase = "idle"
    /\ \E m \in ModeInputs : Do("_set_mode", <<m>>, _set_mode(<<>>, m))

Do_get_config ==
    /\ phase = "idle"
    /\ \E raw \in BOOLEAN : Do("get_config", <<raw>>, get_config(<<>>, raw))

Do_set_config ==
    /\ phase = "idle"
    /\ \E c \in ConfigInputs : Do("set_config", <<c>>, set_config(<<>>, c))

Do_exec_cmd ==
    /\ phase = "idle"
    /\ \E c \in CmdInputs : Do("_exec_cmd", <<c>>, _exec_cmd(<<>>, c))

Do_set_ambient_temp ==
    /\ phase = "idle"
    /\ \E t \in TempInputs : Do("set_ambient_temp", <<t>>, set_ambient_temp(<<>>, t))

Do_set_humidity ==
    /\ phase = "idle"
    /\ \E h \in HumInputs : Do("set_humidity", <<h>>, set_humidity(<<>>, h))

Do_get_firmware_version ==
    /\ phase = "idle"
    /\ Do("get_firmware_version", <<>>, get_firmware_version(<<>>))

Do_start_measurement ==
    /\ phase = "idle"
    /\ \E start \in BOOLEAN :
          Do("start_measurement", <<start>>, start_measurement(<<>>, start))

Do_get_measurement_value ==
    /\ phase = "idle"
    /\ \E i \in IndexInputs :
          Do("get_measurement_value", <<i>>, get_measurement_value(<<>>, i))

Do_get_data_status ==
    /\ phase = "idle"
    /\ \E raw \in BOOLEAN : Do("get_data_status", <<raw>>, get_data_status(<<>>, raw))

Do_is_continuously_mode ==
    /\ phase = "idle"
    /\ Do("is_continuously_mode", <<>>, is_continuously_mode(<<>>))

Do_next ==
    /\ phase = "idle"
    /\ Do("__next__", <<>>, __next__(<<>>))

Next ==
    \/ Do_read_register
    \/ Do_get_id
    \/ Do_soft_reset
    \/ Do_set_mode
    \/ Do_get_config
    \/ Do_set_config
    \/ Do_exec_cmd
    \/ Do_set_ambient_temp
    \/ Do_set_humidity
    \/ Do_get_firmware_version
    \/ Do_start_measurement
    \/ Do_get_measurement_value
    \/ Do_get_data_status
    \/ Do_is_continuously_mode
    \/ Do_next
    \/ Resume

Spec == Init /\ [][Next]_vars

----------------------------------------------------------------------------
(* The pure functions applied to inputs drawn from bounded sets. *)

PureBytes == {0, 1, 29, 127, 128, 255}

RECURSIVE SeqsUpTo(_, _)
SeqsUpTo(S, k) ==
    IF k = 0 THEN {<<>>}
    ELSE LET shorter == SeqsUpTo(S, k - 1)
         IN  shorter \cup {Append(q, x) : q \in shorter, x \in S}

\* every one-byte sequence, and the longer ones over PureBytes
CrcInputs == {<<b>> : b \in Byte} \cup SeqsUpTo(PureBytes, MaxCrcLen)

PureInit ==
    /\ check_crc = TRUE
    /\ phase = "idle"
    /\ call = NoCall
    /\ bus = <<>>
    /\ result = NoResult
    /\ misr = 0
    /\ drv = [d \in Drivers |-> IdleDriver]
    /\ lock = Nobody
    /\ serialized = FALSE

Apply_crc8 ==
    /\ phase = "idle"
    /\ \E d \in CrcInputs, seed \in Byte :
          Do("_crc8", <<d, _CRC_POLY, seed>>, Return(<<>>, <<_crc8(d, _CRC_POLY, seed)>>))

Apply_to_raw_config ==
    /\ phase = "idle"
    /\ \E cfg \in ConfigInputs :
          Do("_to_raw_config", <<cfg>>, Return(<<>>, <<_to_raw_config(cfg)>>))

Apply_to_config ==
    /\ phase = "idle"
    /\ \E raw_cfg \in Byte :
          Do("_to_config", <<raw_cfg>>, Return(<<>>, <<_to_config(raw_cfg)>>))

PureNext ==
    \/ Apply_crc8
    \/ Apply_to_raw_config
    \/ Apply_to_config
    \/ Resume

SpecPure == PureInit /\ [][PureNext]_vars

----------------------------------------------------------------------------
(* Two driver instances (check_crc = True) on one chip.  The chip keeps a  *)
(* running checksum: a read of a register below 0x38 replaces it by the    *)
(* checksum of the bytes returned, seeded with its old value; the          *)
(* transport delivers every byte unchanged.  Each bus transaction of       *)
(* _read_register is one step; with serialized set, a caller holds a mutex *)
(* from before the first transaction of a read until after its last.       *)

\* driver "a" polls eCO2 (0x24, 2 bytes), driver "b" polls the AQI (0x21, 1 byte)
SharedReg(d) == IF d = "a" THEN <<36, 2>> ELSE <<33, 1>>

\* the chip's running checksum after it returned the bytes b of register reg
ChipChecksum(old, reg, b) == IF reg < 56 THEN _crc8(b, _CRC_POLY, old) ELSE old

SharedInit ==
    /\ check_crc = TRUE
    /\ phase = "idle"
    /\ call = NoCall
    /\ bus = <<>>
    /\ result = NoResult
    /\ misr \in CrcSamples
    /\ drv = [d \in Drivers |-> IdleDriver]
    /\ lock = Nobody
    /\ serialized \in BOOLEAN

\* the caller of driver d calls _read_register (after taking the mutex, when serialized)
ReadBegin(d) ==
    /\ drv[d].pc = "idle"
    /\ drv[d].reads < MaxReads
    /\ serialized => lock = Nobody
    /\ LET rn == SharedReg(d)
       IN drv' = [drv EXCEPT ![d] = [pc |-> "before", reg |-> rn[1], n |-> rn[2],
                                     before |-> 0, b |-> <<>>, st |-> "none",
                                     reads |-> drv[d].reads + 1, intruded |-> FALSE]]
    /\ lock' = IF serialized THEN d ELSE lock
    /\ UNCHANGED <<check_crc, phase, call, bus, result, misr, serialized>>

\* a mutation of ReadBefore: the seed is taken to be 0 instead of being read from the chip
ReadBefore_zero(d) ==
    /\ drv[d].pc = "before"
    /\ drv' = [drv EXCEPT ![d].before = 0, ![d].pc = "data"]
    /\ UNCHANGED <<check_crc, phase, call, bus, result, misr, lock, serialized>>

\* before = self._get_last_checksum()
ReadBefore(d) ==
    /\ drv[d].pc = "before"
    /\ drv' = [drv EXCEPT ![d].before = misr, ![d].pc = "data"]
    /\ UNCHANGED <<check_crc, phase, call, bus, result, misr, lock, serialized>>

\* b = conn.read_reg(reg_addr, bytes_count): the chip returns some register content
\* and updates its checksum; a read of another driver that is between its before
\* and its after is intruded upon
ReadData(d) ==
    /\ drv[d].pc = "data"
    /\ \E j \in 0 .. NumSamples - 1 :
          LET b == SampleReply(j, drv[d].n)
          IN  /\ misr' = ChipChecksum(misr, drv[d].reg, b)
              /\ drv' = [e \in Drivers |->
                            IF e = d THEN [drv[e] EXCEPT !.b = b, !.pc = "after"]
                            ELSE IF drv[e].pc \in {"data", "after"}
                                 THEN [drv[e] EXCEPT !.intruded = TRUE]
                                 ELSE drv[e]]
    /\ UNCHANGED <<check_crc, phase, call, bus, result, lock, serialized>>

\* crc = _crc8(b, poly, before); after = self._get_last_checksum(); compare; return
ReadAfter(d) ==
    /\ drv[d].pc = "after"
    /\ LET crc == _crc8(drv[d].b, _CRC_POLY, drv[d].before)
           after == misr
       IN  drv' = [drv EXCEPT ![d].st = IF crc # after THEN "IOError" ELSE "ok",
                              ![d].pc = "idle", ![d].before = 0, ![d].b = <<>>]
    /\ lock' = IF serialized THEN Nobody ELSE lock
    /\ UNCHANGED <<check_crc, phase, call, bus, result, misr, serialized>>

SharedNext ==
    \E d \in Drivers :
        \/ ReadBegin(d)
        \/ ReadBefore(d)
        \/ ReadData(d)
        \/ ReadAfter(d)

SpecShared == SharedInit /\ [][SharedNext]_vars

----------------------------------------------------------------------------
(* The claims. *)

Ended(name) == phase = "done" /\ call.name = name

IsRead(tx, reg, n) == tx.op = "r" /\ tx.reg = reg /\ tx.n = n

IsWrite(tx, reg, n, value) == tx.op = "w" /\ tx.reg = reg /\ tx.n = n /\ tx.val = <<value>>

\* the registers other than the checksum register that a call read, in order
RegsRead(log) ==
    LET reads == SelectSeq(log, LAMBDA tx : tx.op = "r" /\ tx.reg # 56)
    IN  [i \in DOMAIN reads |-> reads[i].reg]

ReadsChecksum(log) == \E i \in DOMAIN log : log[i].op = "r" /\ log[i].reg = 56

VerifiedRead == Ended("_read_register") /\ check_crc /\ call.args[1] < 56

(* C1: with check_crc set, _read_register on an address in [0x00, 0x38)    *)
(* returns the bytes of the target register, unmodified, if and only if    *)
(* _crc8(data, 0x1D, before) equals after, where before and after are the  *)
(* checksum-register replies just before and just after the data read; in  *)
(* every other case it raises IOError and returns no data.                 *)
C1_ReturnsDataIffChecksumMatches ==
    VerifiedRead =>
        /\ Len(bus) = 3
        /\ LET before == bus[1].val[1]
               data == bus[2].val
               after == bus[3].val[1]
               matches == _crc8(data, _CRC_POLY, before) = after
           IN  /\ bus[1].reg = 56 /\ bus[2].reg = call.args[1] /\ bus[3].reg = 56
               /\ (result.st = "ok" /\ result.val = data) <=> matches
               /\ ~matches => (result.st = "IOError" /\ result.val = <<>>)

C1_Witness ==
    /\ VerifiedRead
    /\ call.args[2] = 2
    /\ bus[1].val[1] >= 128
    /\ result.st = "ok"
    /\ result.val = bus[2].val

ReadOps ==
    {"get_id", "get_config", "get_data_status", "get_measurement_value",
     "get_firmware_version", "is_continuously_mode", "__next__"}

(* C2: with check_crc = False, no read operation (get_id, get_config,      *)
(* get_data_status, get_measurement_value, get_firmware_version,           *)
(* is_continuously_mode, __next__) ever reads the checksum register 0x38   *)
(* or fails with an integrity error, whatever the transport replies.       *)
C2_NoChecksumReadWhenDisabled ==
    (phase = "done" /\ ~check_crc /\ call.name \in ReadOps) =>
        /\ ~ReadsChecksum(bus)
        /\ result.st = "ok"

C2_Witness ==
    /\ Ended("__next__")
    /\ ~check_crc
    /\ Len(result.val) = 3
    /\ RegsRead(bus) = <<16, 32, 36, 34, 33>>
    /\ Len(bus) = 5

\* the reference recurrence of C3: the shifted checksum is masked, then XORed with b
RECURSIVE RefCrc(_, _)
RefCrc(crc, d) ==
    IF d = <<>> THEN crc
    ELSE LET shifted == BitXor((crc * 2) % 256, Head(d))
         IN  RefCrc(IF crc < 128 THEN shifted ELSE BitXor(shifted, 29), Tail(d))

(* C3: for every seed byte s and every byte sequence d, _crc8(d, 0x1D, s)  *)
(* equals the reference recurrence (crc := s; for each b: shifted :=       *)
(* ((crc << 1) & 0xFF) XOR b; crc := shifted if crc's top bit is clear,    *)
(* else shifted XOR 0x1D); the result is a byte, and for the empty         *)
(* sequence it is the seed.                                                *)
C3_Crc8IsTheReferenceRecurrence ==
    Ended("_crc8") =>
        LET d == call.args[1]
            s == call.args[3]
        IN  /\ result.val[1] = RefCrc(s, d)
            /\ result.val[1] \in Byte
            /\ d = <<>> => result.val[1] = s

C3_Witness ==
    /\ Ended("_crc8")
    /\ call.args[1] = <<128, 255>>
    /\ call.args[3] = 255
    /\ result.val = <<57>>

(* C4: an invalid value is rejected before any bus transaction: _set_mode  *)
(* (and start_measurement, soft_reset) with a mode outside {0, 1, 2,       *)
(* 0xF0}, _exec_cmd with a command outside {0x00, 0x0E, 0xCC} and          *)
(* set_humidity with a value outside 0..100 raise a validation error and   *)
(* issue no register write and no register read; with a valid value        *)
(* exactly the corresponding register (0x10, 0x12, 0x15) is written.       *)
C4_InvalidValuesRejectedBeforeTheBus ==
    /\ Ended("_set_mode") =>
          IF call.args[1] \in {0, 1, 2, 240}
          THEN result.st = "ok" /\ Len(bus) = 1 /\ IsWrite(bus[1], 16, 1, call.args[1])
          ELSE result.st = "ValueError" /\ bus = <<>>
    /\ Ended("start_measurement") =>
          /\ result.st = "ok" /\ Len(bus) = 1
          /\ IsWrite(bus[1], 16, 1, IF call.args[1] THEN 2 ELSE 1)
    /\ Ended("soft_reset") =>
          result.st = "ok" /\ Len(bus) = 1 /\ IsWrite(bus[1], 16, 1, 240)
    /\ Ended("_exec_cmd") =>
          IF call.args[1] \in {0, 14, 204}
          THEN /\ Len(bus) >= 1 /\ IsWrite(bus[1], 18, 1, call.args[1])
               /\ \A i \in 2 .. Len(bus) : bus[i].op = "r"
          ELSE result.st = "ValueError" /\ bus = <<>>
    /\ Ended("set_humidity") =>
          IF call.args[1] \in 0 .. 100
          THEN result.st = "ok" /\ Len(bus) = 1
               /\ IsWrite(bus[1], 21, 2, call.args[1] * 512)
          ELSE result.st = "ValueError" /\ bus = <<>>

C4_Witness ==
    /\ Ended("_set_mode")
    /\ call.args[1] = 3
    /\ result.st = "ValueError"
    /\ bus = <<>>

\* Python's round(num/den): to the nearest integer, a tie to the even one
PyRound(num, den) ==
    LET q == num \div den
        r == num % den
    IN  IF 2 * r < den THEN q
        ELSE IF 2 * r > den THEN q + 1
        ELSE IF q % 2 = 0 THEN q ELSE q + 1

(* C5: set_ambient_temp(c) writes to register 0x13, as a 2-byte value,     *)
(* round(64*(273.15+c)), the value rounded to the nearest integer; for     *)
(* c = 25.0 that is 19082.                                                 *)
C5_AmbientTempIsRounded ==
    Ended("set_ambient_temp") =>
        /\ Len(bus) = 1
        /\ IsWrite(bus[1], 19, 2, PyRound(64 * (27315 + 100 * call.args[1]), 100))

(* C6: _to_config(_to_raw_config(x)) = x for each of the 32 combinations   *)
(* of (int_pol, int_cfg, int_gpr, int_dat, int_en), the fields being bits  *)
(* 6, 5, 3, 1, 0; and _to_raw_config(_to_config(r)) = r AND 0b0110_1011    *)
(* for every raw byte r.                                                   *)
C6_ConfigRoundTrip ==
    /\ Ended("_to_raw_config") =>
          LET x == call.args[1]
              raw == result.val[1]
          IN  /\ raw = 64 * BoolInt(x[1]) + 32 * BoolInt(x[2]) + 8 * BoolInt(x[3])
                       + 2 * BoolInt(x[4]) + BoolInt(x[5])
              /\ _to_config(raw) = x
    /\ Ended("_to_config") =>
          LET r == call.args[1]
              cfg == result.val[1]
          IN  /\ cfg = <<(r \div 64) % 2 = 1, (r \div 32) % 2 = 1, (r \div 8) % 2 = 1,
                         (r \div 2) % 2 = 1, r % 2 = 1>>
              /\ _to_raw_config(cfg) = BitAnd(r, 107)

C6_Witness ==
    /\ Ended("_to_config")
    /\ call.args[1] = 255
    /\ _to_raw_config(result.val[1]) = 107

(* C7: with check_crc set, one _read_register on an address in [0x00,      *)
(* 0x38) issues exactly three bus transactions, in this order: a 1-byte    *)
(* read of 0x38, one read of the target register, a 1-byte read of 0x38;   *)
(* also when the checksum mismatches (no retry), and nothing follows.      *)
C7_ThreeTransactionsNoRetry ==
    VerifiedRead =>
        /\ Len(bus) = 3
        /\ IsRead(bus[1], 56, 1)
        /\ IsRead(bus[2], call.args[1], call.args[2])
        /\ IsRead(bus[3], 56, 1)

C7_Witness ==
    /\ VerifiedRead
    /\ result.st = "IOError"
    /\ Len(bus) = 3
    /\ bus[3].val[1] # _crc8(bus[2].val, _CRC_POLY, bus[1].val[1])

(* C8: with check_crc set, a read of a register not below 0x38 (0x38       *)
(* itself, and the response buffer 0x48 read by _exec_cmd and              *)
(* get_firmware_version) is never verified: no after read of 0x38 is       *)
(* issued, the call never fails with an integrity error, and the bytes     *)
(* read are returned unmodified.                                           *)
C8_HighRegistersAreNotVerified ==
    check_crc =>
        /\ (Ended("_read_register") /\ call.args[1] >= 56) =>
              /\ result.st = "ok"
              /\ Len(bus) = 2
              /\ IsRead(bus[1], 56, 1)
              /\ IsRead(bus[2], call.args[1], call.args[2])
              /\ result.val = bus[2].val
        /\ (Ended("_exec_cmd") /\ call.args[1] \in {0, 14, 204}) =>
              /\ result.st = "ok"
              /\ Len(bus) = 3
              /\ IsRead(bus[2], 56, 1)
              /\ IsRead(bus[3], 72, 8)
              /\ result.val = bus[3].val
        /\ Ended("get_firmware_version") =>
              /\ result.st = "ok"
              /\ Len(bus) = 3
              /\ IsWrite(bus[1], 18, 1, 14)
              /\ IsRead(bus[2], 56, 1)
              /\ IsRead(bus[3], 72, 8)
              /\ result.val = <<bus[3].val[5], bus[3].val[6], bus[3].val[7]>>

C8_Witness ==
    /\ check_crc
    /\ Ended("_read_register")
    /\ call.args = <<56, 1>>
    /\ result.st = "ok"
    /\ bus[1].val # bus[2].val
    /\ result.val = bus[2].val

(* C9: on a chip with a running checksum and an error-free transport, a    *)
(* verified read of a driver raises an integrity error only when the       *)
(* reads are not serialized and another driver's data read fell between    *)
(* its before read and its after read; such a state is reachable (the      *)
(* witness), and with the steps of each read serialized it never happens.  *)
C9_SpuriousErrorOnlyWhenInterleaved ==
    \A d \in Drivers :
        drv[d].st = "IOError" => (~serialized /\ drv[d].intruded)

C9_Witness ==
    /\ ~serialized
    /\ \E d \in Drivers : drv[d].st = "IOError" /\ drv[d].intruded

\* the mode and status bytes a call of __next__ read, <<>> when it read none
ByteRead(log, reg) ==
    LET reads == SelectSeq(log, LAMBDA tx : tx.op = "r" /\ tx.reg = reg)
    IN  IF reads = <<>> THEN <<>> ELSE reads[1].val

ModeReadAs2 == ByteRead(bus, 16) = <<2>>

NewDataRead ==
    /\ ByteRead(bus, 32) # <<>>
    /\ (ByteRead(bus, 32)[1] \div 2) % 2 = 1

ReturnsTuple == result.st = "ok" /\ Len(result.val) = 3

ReturnsNone == result.st = "ok" /\ result.val = <<>>

NoDataRegisterRead == \A i \in DOMAIN bus : bus[i].reg \notin {33, 34, 36}

TupleCase ==
    ReturnsTuple =>
        /\ ModeReadAs2 /\ NewDataRead
        /\ RegsRead(bus) = <<16, 32, 36, 34, 33>>
        /\ result.val[3] \in 0 .. 7
        /\ result.val[3] = ByteRead(bus, 33)[1] % 8

(* C10 as stated: __next__ returns a tuple (eco2, tvoc, aqi) only if in    *)
(* that call register 0x10 was read as 0x02 and then register 0x20 was     *)
(* read with bit 1 set; otherwise it returns None without reading any of   *)
(* 0x21, 0x22, 0x24, and without reading 0x20 when the mode is not 0x02.   *)
(* A tuple comes with the reads 0x10, 0x20, 0x24, 0x22, 0x21 in this       *)
(* order and an aqi in 0..7.                                               *)
C10_Original ==
    Ended("__next__") =>
        /\ TupleCase
        /\ ~(ModeReadAs2 /\ NewDataRead) =>
              /\ ReturnsNone
              /\ NoDataRegisterRead
              /\ ~ModeReadAs2 => RegsRead(bus) = <<16>>

(* C10 amended: as C10, but when the condition fails the call returns      *)
(* None or, when a verified read of 0x10 or 0x20 failed its checksum,      *)
(* raises the integrity error; in both cases no data register is read.     *)
C10_NextReturnsTupleOnlyOnNewData ==
    Ended("__next__") =>
        /\ TupleCase
        /\ ~(ModeReadAs2 /\ NewDataRead) =>
              /\ ReturnsNone \/ (check_crc /\ result.st = "IOError")
              /\ NoDataRegisterRead
              /\ ~ModeReadAs2 => RegsRead(bus) = <<16>>

C10_Witness ==
    /\ Ended("__next__")
    /\ check_crc
    /\ ReturnsTuple
    /\ ByteRead(bus, 33) = <<253>>
    /\ result.val[3] = 5

====
